---- MODULE Spec2Model ----
(***************************************************************************)
(* Teacher Quiz Tool API (backend/app.py): the quiz store kept in the two  *)
(* PostgreSQL tables quizzes and questions, and the request handlers       *)
(* create_quiz, get_quiz, get_all_quizzes, delete_quiz and health that act *)
(* on it, one action per database statement (every await on the            *)
(* connection is a point where another request may run).  The store is     *)
(* read at READ COMMITTED, PostgreSQL's default: a statement sees the rows *)
(* committed when it runs.  A second specification, SpecPool, models the   *)
(* lazy initialisation of the connection pool by get_db_pool.              *)
(***************************************************************************)
EXTENDS Integers, Sequences, FiniteSets, TLC

\* ------------------------------------------------------------- bounds
\* Concurrent requests in flight.
MaxTasks == 3
\* create_quiz calls in one behaviour (each takes a fresh uuid4).
MaxQuizzes == 2
\* Requests served in one behaviour.
MaxRequests == 3
\* Concurrent callers of get_db_pool in SpecPool.
MaxCallers == 3

Tasks == 1..MaxTasks
Callers == 1..MaxCallers
QuizIds == 1..MaxQuizzes

\* Python's None and SQL's NULL.
Null == "NULL"
\* The global pool before get_db_pool has set it.
NoPool == 0

\* ------------------------------------------------------------- inputs
\* class Question: the request's question objects.
Q1 == [question |-> "2+2?", options |-> <<"3", "4", "5">>, correct |-> 1,
       question_type |-> "multiple_choice", image_url |-> Null]
Q2 == [question |-> "pic?", options |-> <<"T", "F">>, correct |-> 0,
       question_type |-> "image_based", image_url |-> "u.png"]

\* class Quiz: the request bodies create_quiz is called with.  description is
\* Optional[str]: a request may carry null.
QuizInputs ==
    { [title |-> "Math",  description |-> "",   questions |-> <<Q1>>],
      [title |-> "Pics",  description |-> Null, questions |-> <<Q1, Q2>>],
      [title |-> "Empty", description |-> "d",  questions |-> <<>>] }

NoQuiz == [title |-> "", description |-> Null, questions |-> <<>>]

VARIABLES
    quizzes,     \* committed rows of table quizzes
    questions,   \* committed rows of table questions
    nextSerial,  \* the sequence behind questions.id SERIAL
    nextId,      \* how many uuid4 identifiers create_quiz has drawn, plus one
    clock,       \* the database server's clock, read by NOW()
    task,        \* the requests in flight: handler, position, locals, response
    started,     \* how many requests have entered a handler
    requests,    \* history: quiz id -> what create_quiz was called with
    returned,    \* history: ids whose create_quiz has returned successfully
    deleted,     \* history: ids a delete_quiz has removed
    pool,        \* the global pool
    poolsCreated,\* history: how many times asyncpg.create_pool has completed
    caller       \* SpecPool: each get_db_pool caller's position

vars == <<quizzes, questions, nextSerial, nextId, clock, task, started, requests,
          returned, deleted, pool, poolsCreated, caller>>

storeVars == <<quizzes, questions, nextSerial, nextId, clock, task, started, requests,
               returned, deleted>>
poolVars == <<pool, poolsCreated, caller>>

\* ------------------------------------------------------------ helpers
\* The orders in which a SELECT may return a set of rows: every sequence
\* holding each row once.
Perms(S) ==
    { f \in [1..Cardinality(S) -> S] : \A x \in S : \E i \in DOMAIN f : f[i] = x }

IsPermutation(s, t) ==
    /\ Len(s) = Len(t)
    /\ \E p \in [1..Len(s) -> 1..Len(s)] :
          /\ \A i, j \in 1..Len(s) : p[i] = p[j] => i = j
          /\ \A i \in 1..Len(s) : s[i] = t[p[i]]

\* ---------------------------------------------------- rows and responses
\* INSERT INTO quizzes (id, title, description, created) VALUES ($1,$2,$3,NOW())
QuizRow(quiz_id, quiz, now) ==
    [id |-> quiz_id, title |-> quiz.title, description |-> quiz.description,
     created |-> now]

\* INSERT INTO questions (quiz_id, question_text, options, correct_index,
\* question_type, image_url); id is drawn from the SERIAL sequence.
QuestionRow(serial, quiz_id, question) ==
    [id |-> serial, quiz_id |-> quiz_id, question_text |-> question.question,
     options |-> question.options, correct_index |-> question.correct,
     question_type |-> question.question_type, image_url |-> question.image_url]

\* The mis-mapped reader: every question reported with the column default type.
QuestionDictDefaultType(q) ==
    [question |-> q.question_text, options |-> q.options,
     correct |-> q.correct_index, question_type |-> "multiple_choice",
     image_url |-> q.image_url]

\* The dict the readers build from a fetched question row.
QuestionDict(q) ==
    [question |-> q.question_text, options |-> q.options,
     correct |-> q.correct_index, question_type |-> q.question_type,
     image_url |-> q.image_url]

\* quiz['description'] or "": NULL and the empty string both read as "".
DescriptionOrEmpty(description) ==
    IF description = Null \/ description = "" THEN "" ELSE description

\* The dict the readers build from a quiz row and its fetched question rows.
QuizDict(quiz, questions_data) ==
    [id |-> quiz.id, title |-> quiz.title,
     description |-> DescriptionOrEmpty(quiz.description),
     created |-> quiz.created,
     questions |-> [i \in 1..Len(questions_data) |-> QuestionDict(questions_data[i])]]

\* ------------------------------------------------------------- the store
\* SELECT * FROM quizzes WHERE id = $1
SelectQuiz(quiz_id) == { r \in quizzes : r.id = quiz_id }

\* SELECT ... FROM questions WHERE quiz_id = $1: no ORDER BY, so the rows come
\* in whatever order the scan meets them; any order is a possible answer.
SelectQuestions(quiz_id) ==
    Perms({ r \in questions : r.quiz_id = quiz_id })

\* The reversed ordering: oldest first.
OrderedByCreatedAsc(s) ==
    \A i, j \in 1..Len(s) : i < j => s[i].created <= s[j].created

\* ORDER BY created DESC: rows with equal timestamps come in any order.
OrderedByCreated(s) ==
    \A i, j \in 1..Len(s) : i < j => s[i].created >= s[j].created

\* SELECT * FROM quizzes ORDER BY created DESC
SelectAllQuizzes == { s \in Perms(quizzes) : OrderedByCreated(s) }

\* The DELETE without its WHERE clause.
DeleteEveryQuizRow(rows, quiz_id) == {}

\* DELETE FROM quizzes WHERE id = $1
DeleteQuizRow(rows, quiz_id) == { r \in rows : r.id # quiz_id }

\* The schema without the foreign key: the children stay.
DeleteNoCascade(rows, quiz_id) == rows

\* quiz_id TEXT REFERENCES quizzes(id) ON DELETE CASCADE
DeleteCascade(rows, quiz_id) == { r \in rows : r.quiz_id # quiz_id }

\* The statements run on the connection in autocommit.
NoTransaction == FALSE

\* async with conn.transaction(): the inserts of create_quiz are one
\* transaction, invisible to other connections until it commits.
InTransaction == TRUE

\* A failed block that keeps what it wrote.
KeepPending(committed, pending) == committed \cup pending

\* An exception leaving the transaction block rolls it back.
Rollback(committed, pending) == committed

\* ------------------------------------------------------------- requests
IdleTask ==
    [op |-> "none", pc |-> "idle", quiz_id |-> 0, quiz |-> NoQuiz, created |-> 0,
     pendingQuizzes |-> {}, pendingQuestions |-> {}, k |-> 0, fetched |-> <<>>,
     status |-> 0, body |-> <<>>, clean |-> TRUE,
     startReturned |-> {}, startDeleted |-> {}]

\* A request enters its handler: a fresh frame, with what had returned and what
\* had been deleted when it was called.
NewTask(op, pc, quiz_id) ==
    [IdleTask EXCEPT !.op = op, !.pc = pc, !.quiz_id = quiz_id,
                     !.startReturned = returned, !.startDeleted = deleted]

\* A request may enter a handler on t: the first task that is not inside one
\* (the tasks are interchangeable).
Free(t) ==
    /\ started < MaxRequests
    /\ task[t].pc \in {"idle", "done"}
    /\ \A u \in Tasks : u < t => task[u].pc \notin {"idle", "done"}

\* The frames as a request enters: the responses of the requests that have
\* returned are out of the process.
Entered == [u \in Tasks |-> IF task[u].pc = "done" THEN IdleTask ELSE task[u]]

\* get_db_pool with the pool set: returns it, nothing else.
PoolReady == pool # NoPool

\* The committed store changed under every request in flight.
Touched(tk) == [u \in Tasks |-> [tk[u] EXCEPT !.clean = FALSE]]

Init ==
    /\ quizzes = {}
    /\ questions = {}
    /\ nextSerial = 1
    /\ nextId = 1
    /\ clock = 0
    /\ task = [t \in Tasks |-> IdleTask]
    /\ started = 0
    /\ requests = <<>>
    /\ returned = {}
    /\ deleted = {}
    /\ pool = 1
    /\ poolsCreated = 1
    /\ caller = [c \in Callers |-> "done"]

\* create_quiz up to BEGIN: get_db_pool, uuid4, acquire, open the transaction.
\* NOW() is the transaction's start time.  Transactions open at once read the
\* same time and their rows tie in ORDER BY created.
CreateBegin(t, quiz) ==
    /\ Free(t)
    /\ PoolReady
    /\ started' = started + 1
    /\ nextId <= MaxQuizzes
    /\ task' = [Entered EXCEPT ![t] =
           [NewTask("create", "insert_quiz", nextId) EXCEPT
               !.quiz = quiz, !.created = clock]]
    /\ requests' = requests @@ (nextId :> [quiz |-> quiz, before |-> returned])
    /\ nextId' = nextId + 1
    /\ UNCHANGED <<quizzes, questions, nextSerial, clock, returned, deleted>>
    /\ UNCHANGED poolVars

\* INSERT INTO quizzes
CreateInsertQuiz(t) ==
    /\ task[t].pc = "insert_quiz"
    /\ LET row == QuizRow(task[t].quiz_id, task[t].quiz, task[t].created)
       IN  IF InTransaction
           THEN /\ task' = [task EXCEPT ![t].pc = "insert_questions", ![t].k = 1,
                                        ![t].pendingQuizzes = {row}]
                /\ UNCHANGED quizzes
           ELSE /\ task' = [Touched(task) EXCEPT ![t].pc = "insert_questions",
                                                 ![t].k = 1]
                /\ quizzes' = quizzes \cup {row}
    /\ UNCHANGED <<questions, nextSerial, nextId, clock, requests, returned, deleted>>
    /\ UNCHANGED started
    /\ UNCHANGED poolVars

\* The exception leaves the transaction block and the handler: HTTP 500.
Failed(t) ==
    /\ task' = [task EXCEPT ![t].pc = "done", ![t].status = 500,
                            ![t].pendingQuizzes = {}, ![t].pendingQuestions = {}]
    /\ quizzes' = Rollback(quizzes, task[t].pendingQuizzes)
    /\ questions' = Rollback(questions, task[t].pendingQuestions)

\* One pass of the loop over quiz.questions: INSERT INTO questions.
CreateInsertQuestion(t) ==
    /\ task[t].pc = "insert_questions"
    /\ task[t].k <= Len(task[t].quiz.questions)
    /\ LET question == task[t].quiz.questions[task[t].k]
           row == QuestionRow(nextSerial, task[t].quiz_id, question)
       IN  /\ nextSerial' = nextSerial + 1
           /\ IF InTransaction
              THEN /\ task' = [task EXCEPT ![t].k = @ + 1,
                                  ![t].pendingQuestions = @ \cup {row}]
                   /\ UNCHANGED questions
              ELSE /\ task' = [Touched(task) EXCEPT ![t].k = @ + 1]
                   /\ questions' = questions \cup {row}
    /\ UNCHANGED quizzes
    /\ UNCHANGED <<nextId, clock, requests, returned, deleted>>
    /\ UNCHANGED started
    /\ UNCHANGED poolVars

\* A statement of the transaction fails in the store (connection lost, ...).
CreateStorageError(t) ==
    /\ task[t].pc \in {"insert_quiz", "insert_questions"}
    /\ Failed(t)
    /\ UNCHANGED <<nextSerial, nextId, clock, requests, returned, deleted>>
    /\ UNCHANGED started
    /\ UNCHANGED poolVars

\* The loop is over: the transaction block commits and the handler returns the
\* id.  The round trips since BEGIN took longer than the clock's resolution.
CreateCommit(t) ==
    /\ task[t].pc = "insert_questions"
    /\ task[t].k > Len(task[t].quiz.questions)
    /\ quizzes' = quizzes \cup task[t].pendingQuizzes
    /\ questions' = questions \cup task[t].pendingQuestions
    /\ task' = [Touched(task) EXCEPT ![t].pc = "done", ![t].status = 200,
                                     ![t].pendingQuizzes = {},
                                     ![t].pendingQuestions = {}]
    /\ clock' = clock + 1
    /\ returned' = returned \cup {task[t].quiz_id}
    /\ UNCHANGED <<nextSerial, nextId, requests, deleted>>
    /\ UNCHANGED started
    /\ UNCHANGED poolVars

\* get_quiz: fetchrow on quizzes, 404 when there is no row.
GetQuizFetchQuiz(t, quiz_id) ==
    /\ Free(t)
    /\ PoolReady
    /\ started' = started + 1
    /\ IF SelectQuiz(quiz_id) = {}
       THEN task' = [Entered EXCEPT ![t] =
                [NewTask("get", "done", quiz_id) EXCEPT !.status = 404]]
       ELSE \E quiz \in SelectQuiz(quiz_id) :
                task' = [Entered EXCEPT ![t] =
                    [NewTask("get", "fetch_questions", quiz_id) EXCEPT
                        !.fetched = <<quiz>>]]
    /\ UNCHANGED <<quizzes, questions, nextSerial, nextId, clock, requests,
                   returned, deleted>>
    /\ UNCHANGED poolVars

\* get_quiz: fetch on questions, a second statement, then the response.
GetQuizFetchQuestions(t) ==
    /\ task[t].pc = "fetch_questions"
    /\ \E questions_data \in SelectQuestions(task[t].quiz_id) :
          task' = [task EXCEPT ![t].pc = "done", ![t].status = 200,
                      ![t].body = <<QuizDict(task[t].fetched[1], questions_data)>>]
    /\ UNCHANGED <<quizzes, questions, nextSerial, nextId, clock, requests,
                   returned, deleted>>
    /\ UNCHANGED started
    /\ UNCHANGED poolVars

\* get_all_quizzes: fetch on quizzes; with no row the loop body never runs.
ListFetchQuizzes(t) ==
    /\ Free(t)
    /\ PoolReady
    /\ started' = started + 1
    /\ \E rows \in SelectAllQuizzes :
          task' = [Entered EXCEPT ![t] =
              [NewTask("list", IF rows = <<>> THEN "done" ELSE "list_questions", 0)
                  EXCEPT !.fetched = rows,
                         !.status = IF rows = <<>> THEN 200 ELSE 0]]
    /\ UNCHANGED <<quizzes, questions, nextSerial, nextId, clock, requests,
                   returned, deleted>>
    /\ UNCHANGED poolVars

\* get_all_quizzes: one pass of the loop, a fetch on questions for the next
\* quiz of the list; after the last, the response.
ListFetchQuestions(t) ==
    /\ task[t].pc = "list_questions"
    /\ LET i == Len(task[t].body) + 1
           quiz == task[t].fetched[i]
           last == i = Len(task[t].fetched)
       IN  \E questions_data \in SelectQuestions(quiz.id) :
              task' = [task EXCEPT
                  ![t].body = Append(@, QuizDict(quiz, questions_data)),
                  ![t].pc = IF last THEN "done" ELSE "list_questions",
                  ![t].status = IF last THEN 200 ELSE 0]
    /\ UNCHANGED <<quizzes, questions, nextSerial, nextId, clock, requests,
                   returned, deleted>>
    /\ UNCHANGED started
    /\ UNCHANGED poolVars

\* The command tag conn.execute returns for the DELETE.
DeleteTag(n) == IF n = 1 THEN "DELETE 1" ELSE "DELETE 0"

\* A handler that reports success whatever the tag.
DeleteAlwaysOk(result) == 200

\* if result == "DELETE 1": 200, else 404.
DeleteStatus(result) == IF result = "DELETE 1" THEN 200 ELSE 404

\* delete_quiz: one DELETE statement (its own transaction), then the response.
DeleteQuiz(t, quiz_id) ==
    /\ Free(t)
    /\ PoolReady
    /\ started' = started + 1
    /\ LET n == Cardinality(SelectQuiz(quiz_id))
           frame == [NewTask("delete", "done", quiz_id) EXCEPT
                        !.status = DeleteStatus(DeleteTag(n))]
       IN  /\ quizzes' = DeleteQuizRow(quizzes, quiz_id)
           /\ questions' = DeleteCascade(questions, quiz_id)
           /\ task' = IF n = 0 THEN [Entered EXCEPT ![t] = frame]
                               ELSE [Touched(Entered) EXCEPT ![t] = frame]
           /\ deleted' = IF n = 0 THEN deleted ELSE deleted \cup {quiz_id}
    /\ UNCHANGED <<nextSerial, nextId, clock, requests, returned>>
    /\ UNCHANGED poolVars

\* health: SELECT 1.
Health(t) ==
    /\ Free(t)
    /\ PoolReady
    /\ started' = started + 1
    /\ task' = [Entered EXCEPT ![t] = [NewTask("health", "done", 0) EXCEPT !.status = 200]]
    /\ UNCHANGED <<quizzes, questions, nextSerial, nextId, clock, requests,
                   returned, deleted>>
    /\ UNCHANGED poolVars

Next ==
    \E t \in Tasks :
        \/ \E quiz \in QuizInputs : CreateBegin(t, quiz)
        \/ CreateInsertQuiz(t)
        \/ CreateInsertQuestion(t)
        \/ CreateStorageError(t)
        \/ CreateCommit(t)
        \/ \E quiz_id \in QuizIds : GetQuizFetchQuiz(t, quiz_id)
        \/ GetQuizFetchQuestions(t)
        \/ ListFetchQuizzes(t)
        \/ ListFetchQuestions(t)
        \/ \E quiz_id \in QuizIds : DeleteQuiz(t, quiz_id)
        \/ Health(t)

Spec == Init /\ [][Next]_vars

\* ------------------------------------------------- the connection pool
\* get_db_pool up to its first suspension: the test of the global and, with it
\* None, the call of asyncpg.create_pool, which suspends the caller.
GetDbPool(c) ==
    /\ caller[c] = "start"
    /\ caller' = [caller EXCEPT ![c] = IF pool = NoPool THEN "create_pool" ELSE "done"]
    /\ UNCHANGED <<pool, poolsCreated>>
    /\ UNCHANGED storeVars

\* The get_db_pool that create_tables calls first, run without suspension when
\* the global is set: where the caller of create_tables goes next.
CreateTablesGetDbPool(p) ==
    IF p = NoPool THEN "nested_create_pool" ELSE "create_quizzes"

\* asyncpg.create_pool completes: the global is assigned, create_tables is
\* entered and runs to its first statement.
CreatePool(c) ==
    /\ caller[c] \in {"create_pool", "nested_create_pool"}
    /\ pool' = poolsCreated + 1
    /\ poolsCreated' = poolsCreated + 1
    /\ caller' = [caller EXCEPT ![c] = CreateTablesGetDbPool(pool')]
    /\ UNCHANGED storeVars

\* create_tables: CREATE TABLE IF NOT EXISTS quizzes
CreateQuizzesTable(c) ==
    /\ caller[c] = "create_quizzes"
    /\ caller' = [caller EXCEPT ![c] = "create_questions"]
    /\ UNCHANGED <<pool, poolsCreated>>
    /\ UNCHANGED storeVars

\* create_tables: CREATE TABLE IF NOT EXISTS questions; get_db_pool returns.
CreateQuestionsTable(c) ==
    /\ caller[c] = "create_questions"
    /\ caller' = [caller EXCEPT ![c] = "done"]
    /\ UNCHANGED <<pool, poolsCreated>>
    /\ UNCHANGED storeVars

\* The process starts with the global pool = None; startup_event and the
\* handlers are the callers of get_db_pool.
InitPool ==
    /\ quizzes = {}
    /\ questions = {}
    /\ nextSerial = 1
    /\ nextId = 1
    /\ clock = 0
    /\ task = [t \in Tasks |-> IdleTask]
    /\ started = 0
    /\ requests = <<>>
    /\ returned = {}
    /\ deleted = {}
    /\ pool = NoPool
    /\ poolsCreated = 0
    /\ caller = [c \in Callers |-> "start"]

NextPool ==
    \E c \in Callers :
        \/ GetDbPool(c)
        \/ CreatePool(c)
        \/ CreateQuizzesTable(c)
        \/ CreateQuestionsTable(c)

SpecPool == InitPool /\ [][NextPool]_vars

\* ------------------------------------------------------------- claims
\* The quiz dicts a reader (get_quiz, get_all_quizzes) has assembled.
ReaderDicts(t) ==
    IF task[t].op \in {"get", "list"}
    THEN { task[t].body[i] : i \in 1..Len(task[t].body) }
    ELSE {}

\* The questions create_quiz was called with for this id.
InputQuestions(quiz_id) == requests[quiz_id].quiz.questions

QuizRowIds == { r.id : r \in quizzes }

\* C1: a reader running beside a create_quiz never returns the quiz being
\* created with only some of its questions: every quiz a reader returns, unless
\* a delete_quiz has removed it, carries all the questions it was created with.
CreateAtomicToReaders ==
    \A t \in Tasks : \A d \in ReaderDicts(t) :
        d.id \notin deleted => IsPermutation(d.questions, InputQuestions(d.id))

\* A get_quiz has answered 404 for a quiz whose create_quiz has inserted the
\* quiz row and one of its two questions and has not committed.
CreateAtomicWitness ==
    \E t, u \in Tasks :
        /\ task[t].op = "get" /\ task[t].pc = "done" /\ task[t].status = 404
        /\ task[u].op = "create" /\ task[u].pc = "insert_questions"
        /\ task[u].quiz_id = task[t].quiz_id
        /\ task[u].k = 2 /\ Len(task[u].quiz.questions) = 2

\* C2: no partial deletion is observable: every quiz a reader returns carries
\* as many questions as it was created with, also when a delete_quiz runs
\* between the reader's two statements.
DeleteAtomicToReaders ==
    \A t \in Tasks : \A d \in ReaderDicts(t) :
        Len(d.questions) = Len(InputQuestions(d.id))

\* What get_quiz must return for a quiz id, description as given.
RoundTrip(d, quiz_id, description) ==
    /\ d.id = quiz_id
    /\ d.title = requests[quiz_id].quiz.title
    /\ d.description = description
    /\ IsPermutation(d.questions, InputQuestions(quiz_id))

\* A get_quiz called after the create_quiz of its id returned, the quiz not
\* deleted since.
GetAfterCreate(t) ==
    /\ task[t].op = "get" /\ task[t].pc = "done"
    /\ task[t].quiz_id \in task[t].startReturned
    /\ task[t].quiz_id \notin deleted

\* C3 as stated: get_quiz after create_quiz returns title and description
\* equal to the input and exactly the input's questions, field for field.
RoundTripExact ==
    \A t \in Tasks : GetAfterCreate(t) =>
        /\ task[t].status = 200
        /\ Len(task[t].body) = 1
        /\ RoundTrip(task[t].body[1], task[t].quiz_id,
                     requests[task[t].quiz_id].quiz.description)

\* C3 amended: the same, with a null description read back as the empty string.
RoundTripNullAsEmpty ==
    \A t \in Tasks : GetAfterCreate(t) =>
        /\ task[t].status = 200
        /\ Len(task[t].body) = 1
        /\ RoundTrip(task[t].body[1], task[t].quiz_id,
                     IF requests[task[t].quiz_id].quiz.description = Null
                     THEN "" ELSE requests[task[t].quiz_id].quiz.description)

\* A get_quiz has returned a quiz created with two questions and a null
\* description.
RoundTripWitness ==
    \E t \in Tasks :
        /\ GetAfterCreate(t)
        /\ task[t].status = 200
        /\ Len(InputQuestions(task[t].quiz_id)) = 2
        /\ requests[task[t].quiz_id].quiz.description = Null

\* C4: the readers return a quiz's questions in the order they were given to
\* create_quiz.
QuestionOrderPreserved ==
    \A t \in Tasks : \A d \in ReaderDicts(t) :
        Len(d.questions) = Len(InputQuestions(d.id)) =>
            d.questions = InputQuestions(d.id)

\* C5: a create_quiz that failed, at the quiz insert or at any question
\* insert, has left neither its quiz row nor any of its question rows.
FailedCreateLeavesNothing ==
    \A t \in Tasks :
        (task[t].op = "create" /\ task[t].pc = "done" /\ task[t].status = 500) =>
            /\ SelectQuiz(task[t].quiz_id) = {}
            /\ \A r \in questions : r.quiz_id # task[t].quiz_id

\* A create_quiz of two questions has failed on its second question insert.
FailedCreateWitness ==
    \E t \in Tasks :
        /\ task[t].op = "create" /\ task[t].pc = "done" /\ task[t].status = 500
        /\ task[t].k = 2 /\ Len(task[t].quiz.questions) = 2

\* C6: after a delete_quiz succeeded neither the quiz row nor a question row of
\* the quiz remains, a get_quiz called afterwards answers 404 and a
\* get_all_quizzes called afterwards does not list it; and every question row
\* references a quiz row.
CascadeDelete ==
    /\ \A quiz_id \in deleted :
          /\ SelectQuiz(quiz_id) = {}
          /\ \A r \in questions : r.quiz_id # quiz_id
    /\ \A r \in questions : r.quiz_id \in QuizRowIds
    /\ \A t \in Tasks :
          /\ (task[t].op = "get" /\ task[t].pc = "done"
                 /\ task[t].quiz_id \in task[t].startDeleted) => task[t].status = 404
          /\ \A d \in ReaderDicts(t) : d.id \notin task[t].startDeleted

\* A get_quiz called after the delete_quiz of a quiz that had questions has
\* answered 404.
CascadeDeleteWitness ==
    \E t \in Tasks :
        /\ task[t].op = "get" /\ task[t].pc = "done" /\ task[t].status = 404
        /\ task[t].quiz_id \in task[t].startDeleted
        /\ Len(InputQuestions(task[t].quiz_id)) = 2

\* C7: get_quiz and delete_quiz on an id with no quiz row (never created, or
\* already deleted) answer 404 and leave both tables as they were.
NotFoundOnMissing ==
    [][\A t \in Tasks : \A quiz_id \in QuizIds :
          ((GetQuizFetchQuiz(t, quiz_id) \/ DeleteQuiz(t, quiz_id))
              /\ SelectQuiz(quiz_id) = {}) =>
                 /\ task'[t].pc = "done"
                 /\ task'[t].status = 404
                 /\ quizzes' = quizzes
                 /\ questions' = questions]_vars

\* A second delete_quiz of an id already deleted has answered 404.
NotFoundWitness ==
    \E t \in Tasks :
        /\ task[t].op = "delete" /\ task[t].pc = "done" /\ task[t].status = 404
        /\ task[t].quiz_id \in task[t].startDeleted

\* C8: a get_all_quizzes during which the store did not change returns every
\* quiz row once, and a quiz whose create_quiz was called after another's had
\* returned comes before that other.
ListNewestFirst ==
    \A t \in Tasks :
        (task[t].op = "list" /\ task[t].pc = "done" /\ task[t].clean) =>
            /\ Len(task[t].body) = Cardinality(quizzes)
            /\ { task[t].body[i].id : i \in 1..Len(task[t].body) } = QuizRowIds
            /\ \A i, j \in 1..Len(task[t].body) :
                  task[t].body[j].id \in requests[task[t].body[i].id].before => i < j

\* An undisturbed get_all_quizzes has returned two quizzes created one after
\* the other.
ListNewestFirstWitness ==
    \E t \in Tasks :
        /\ task[t].op = "list" /\ task[t].pc = "done" /\ task[t].clean
        /\ Len(task[t].body) = 2
        /\ task[t].body[2].id \in requests[task[t].body[1].id].before

\* The rows of one quiz: its quiz row and its question rows.
RowsOf(qz, qs, quiz_id) ==
    <<{ r \in qz : r.id = quiz_id }, { r \in qs : r.quiz_id = quiz_id }>>

\* C9: a step changes the rows of at most one quiz, that quiz created or
\* deleted as a whole; a quiz present before and after keeps its row and its
\* question rows; the readers and health change no row.
FrameOfWrites ==
    [][/\ \A quiz_id \in QuizIds :
             (SelectQuiz(quiz_id) # {} /\ SelectQuiz(quiz_id)' # {}) =>
                 RowsOf(quizzes, questions, quiz_id)
                     = RowsOf(quizzes', questions', quiz_id)
       /\ Cardinality({ quiz_id \in QuizIds :
             RowsOf(quizzes, questions, quiz_id)
                 # RowsOf(quizzes', questions', quiz_id) }) <= 1
       /\ (\E t \in Tasks : task'[t] # task[t] /\ task'[t].op \in {"get", "list", "health"}
                               /\ \A u \in Tasks \ {t} : task'[u] = task[u])
             => (quizzes' = quizzes /\ questions' = questions)]_vars

\* A delete_quiz has succeeded while another quiz with questions is stored.
FrameWitness ==
    /\ deleted # {}
    /\ \E r \in questions : r.quiz_id \in QuizRowIds

\* C10: the pool is created at most once, whatever the interleaving of the
\* callers of get_db_pool, and the get_db_pool inside create_tables creates
\* none.
PoolCreatedOnce ==
    /\ poolsCreated <= 1
    /\ \A c \in Callers : caller[c] # "nested_create_pool"

====
